---------------------------- MODULE Spec2Model ----------------------------
(***************************************************************************)
(* Model of src/app.py: a Streamlit script that reads four sliders and a   *)
(* button, and on a button press builds a BioSTEAM flowsheet, simulates    *)
(* it, renders a mass and an energy table, and asks Gemini for a text.     *)
(*                                                                         *)
(* The script is executed top to bottom on every rerun of the page.  What  *)
(* lives in the Python process (the engine's thermo setting, its flowsheet *)
(* registry and its ID ticket counter) and what the framework keeps per    *)
(* session (the slider values) survive a rerun; the script's own names and *)
(* the rendered page do not.                                               *)
(*                                                                         *)
(* Numbers are integers: temperatures read from sliders in degrees C,      *)
(* pressure in 1/100 atm, mass flows in 1/100 kg/h, stream temperature in  *)
(* 1/100 K, stream pressure in Pa, enthalpy flows and duties in kJ/h.      *)
(***************************************************************************)
EXTENDS Integers, Sequences, FiniteSets

\* ------------------------------------------------------------------ bounds

\* Button presses (triggered runs) explored in one behaviour.
MaxCorridas == 2

\* --------------------------------------------------------------- constants

\* st.slider("Flujo Alimentación (kg/h)", 500, 2000, 1000)
FMin == 500
FMax == 2000
FDefault == 1000
\* st.slider("Temp. Salida E-100 (°C)", 70, 90, 85)
T100Min == 70
T100Max == 90
T100Default == 85
\* st.slider("Temp. Salida E-101 (°C)", 85, 98, 92)
T101Min == 85
T101Max == 98
T101Default == 92
\* st.slider("Presión V-102 (atm)", 0.5, 1.5, 1.0), in 1/100 atm
PMin == 50
PMax == 150
PDefault == 100

\* sum(h.duty ...) / 3600 : kJ/h per kW
KJH_POR_KW == 3600
\* abs(calor_kw) > 0.01 : the threshold, in 1/100 kW
UMBRAL_CENTI_KW == 1

\* IDs the engine hands to streams created without one, in ticket order.
AutoIDs ==
    << "s1", "s2", "s3", "s4", "s5", "s6", "s7", "s8", "s9", "s10",
       "s11", "s12", "s13", "s14", "s15", "s16" >>

\* ----------------------------------------------------------------- helpers

Abs(n) == IF n < 0 THEN -n ELSE n

\* Python's round()/format(): n/d to the nearest integer, ties to even (d > 0).
RoundHalfEven(n, d) ==
    LET q == n \div d
        r == n % d
    IN  IF 2 * r < d THEN q
        ELSE IF 2 * r > d THEN q + 1
        ELSE IF q % 2 = 0 THEN q ELSE q + 1

RECURSIVE Suma(_)
Suma(s) == IF s = << >> THEN 0 ELSE Head(s) + Suma(Tail(s))

\* The elements of a sequence, each kept at its first occurrence.
RECURSIVE SinRepetir(_, _)
SinRepetir(s, vistos) ==
    IF s = << >> THEN << >>
    ELSE IF Head(s) \in vistos THEN SinRepetir(Tail(s), vistos)
    ELSE << Head(s) >> \o SinRepetir(Tail(s), vistos \cup {Head(s)})

RECURSIVE Aplanar(_)
Aplanar(ss) == IF ss = << >> THEN << >> ELSE Head(ss) \o Aplanar(Tail(ss))

Rango(s) == { s[i] : i \in 1..Len(s) }

\* ------------------------------------------------- ejecutar_simulacion: setup

\* tmo.Chemicals(['Water', 'Ethanol'])
Chemicals == << "Water", "Ethanol" >>

\* x + 273.15, for x in whole degrees C, in 1/100 K
Kelvin(c) == c * 100 + 27315

\* a * 101325 Pa, for a in 1/100 atm
Pascal(centiAtm) == (centiAtm * 101325) \div 100

\* f_kmol = f_total / 20.82, in mol/h
f_kmol(f_total) == (f_total * 100000) \div 2082

\* The two streams the script creates itself: molar flows in mol/h.
Alimentaciones(f_total) ==
    << [ID |-> "1-MOSTO", Water |-> (f_kmol(f_total) * 9) \div 10,
        Ethanol |-> f_kmol(f_total) \div 10, T |-> Kelvin(25), P |-> 101325],
       [ID |-> "VINAZAS-RETORNO", Water |-> (f_kmol(f_total) * 9) \div 10,
        Ethanol |-> 0, T |-> Kelvin(95), P |-> 300000] >>

\* A unit operation as declared: T and P are its specification (0: none given).
Unidad(id, clase, ins, outs, T, P) ==
    [ID |-> id, clase |-> clase, ins |-> ins, outs |-> outs, T |-> T, P |-> P]

\* The outlet of P-100 and the outlet of E-101 are given no ID by the script:
\* the engine names them with its next two tickets.
P100(t0) == Unidad("P-100", "Pump", << "1-MOSTO" >>, << AutoIDs[t0 + 1] >>,
                   0, Pascal(400))
E100(t0, t_e100) ==
    Unidad("E-100", "HXprocess", << AutoIDs[t0 + 1], "VINAZAS-RETORNO" >>,
           << "3-MOSTO-PRE", "DRENAJE" >>, Kelvin(t_e100), 0)
E101(t0, t_e101) ==
    Unidad("E-101", "HXutility", << "3-MOSTO-PRE" >>, << AutoIDs[t0 + 2] >>,
           Kelvin(t_e101), 0)
V100(t0, p_atm) ==
    Unidad("V-100", "IsenthalpicValve", << AutoIDs[t0 + 2] >>,
           << "MEZCLA-BIFASICA" >>, 0, Pascal(p_atm))
V102(p_atm) ==
    Unidad("V-102", "Flash", << "MEZCLA-BIFASICA" >>,
           << "VAPOR-CALIENTE", "VINAZAS" >>, 0, Pascal(p_atm))
E102 ==
    Unidad("E-102", "HXutility", << "VAPOR-CALIENTE" >>,
           << "PRODUCTO-FINAL" >>, Kelvin(25), 0)
P101 ==
    Unidad("P-101", "Pump", << "VINAZAS" >>, << "VINAZAS-RETORNO" >>,
           0, Pascal(300))

\* Every unit the function declares, in the order of its statements.
Unidades(t0, t_e100, t_e101, p_atm) ==
    << P100(t0), E100(t0, t_e100), E101(t0, t_e101), V100(t0, p_atm),
       V102(p_atm), E102, P101 >>

\* A path that leaves the recycle pump out.
PathSinP101 == << 1, 2, 3, 4, 5, 6 >>

\* path=(P100, E100, E101, V100, V102, E102, P101): positions in Unidades
Path == << 1, 2, 3, 4, 5, 6, 7 >>

\* The IDs of the streams of a system: those its path's units are wired to.
IDsDeCorrientes(units, path) ==
    SinRepetir(Aplanar([i \in 1..Len(path) |->
                          units[path[i]].ins \o units[path[i]].outs]), {})

\* The IDs the construction registers in the flowsheet.
IDsRegistrados(units, f_total) ==
    Rango(Aplanar([i \in 1..Len(units) |-> units[i].ins \o units[i].outs]))
      \cup { Alimentaciones(f_total)[i].ID : i \in 1..2 }

\* The flowsheet registry after registering ids as objects of generation gen:
\* an ID registered again names the new object.
Registrar(reg, ids, gen) ==
    [id \in (DOMAIN reg) \cup ids |-> IF id \in ids THEN gen ELSE reg[id]]

\* The system before simulate(): topology only, no results.
SistemaVacio ==
    [gen |-> -1, chemicals |-> << >>, feeds |-> << >>, units |-> << >>,
     path |-> << >>, streams |-> << >>, heat_utilities |-> << >>]

\* bst.System('planta_etanol', path=...), before simulate()
SistemaDeclarado(t0, f_total, t_e100, t_e101, p_atm) ==
    [gen |-> t0, chemicals |-> Chemicals, feeds |-> Alimentaciones(f_total),
     units |-> Unidades(t0, t_e100, t_e101, p_atm), path |-> Path,
     streams |-> << >>, heat_utilities |-> << >>]

\* ------------------------------------------------ the engine behind simulate()

\* A stream as the engine leaves it: F_mass and the ethanol mass flow (eth) in
\* 1/100 kg/h, H in kJ/h, T in 1/100 K, P in Pa.
Corriente(id, F_mass, eth, H, T, P) ==
    [ID |-> id, F_mass |-> F_mass, eth |-> eth, H |-> H, T |-> T, P |-> P]

CorrienteBase(id, f_total) ==
    Corriente(id, f_total * 100, f_total * 10, 0, Kelvin(25), 101325)

\* Other states simulate() may leave one stream in: no flow, a slightly
\* negative flow, a trickle of a third or of pure ethanol, an enthalpy flow
\* at, just above and far from the reporting threshold, other conditions.
VariantesDeCorriente(c) ==
    { [c EXCEPT !.F_mass = 0, !.eth = 0],
      [c EXCEPT !.F_mass = -1, !.eth = 0],
      [c EXCEPT !.F_mass = 3, !.eth = 1],
      [c EXCEPT !.F_mass = 3, !.eth = 3],
      [c EXCEPT !.H = 36],
      [c EXCEPT !.H = 37],
      [c EXCEPT !.H = -7200],
      [c EXCEPT !.T = Kelvin(95), !.P = 101825] }

\* The heat utilities (their duties, kJ/h) simulate() may leave on one unit.
VariantesDeUtilidades ==
    { << 36 >>, << 37 >>, << -37 >>, << 20, 20 >>, << 3600, -3600 >>,
      << 54 >>, << 90 >> }

\* The results simulate() may leave in the system's streams and units.  The
\* engine is a black box: any of these may come back for any parameters.
\* Here every stream in turn takes each of its other states, every unit in
\* turn each of the heat utilities, every unit in turn a heat utility
\* together with an enthalpy flow on its first outlet, any set of streams is
\* without flow, and any set of units has a heat utility.
ResultadosAmplios(sis, f_total) ==
    LET ids   == IDsDeCorrientes(sis.units, sis.path)
        n     == Len(ids)
        m     == Len(sis.units)
        base  == [i \in 1..n |-> CorrienteBase(ids[i], f_total)]
        nada  == [j \in 1..m |-> << >>]
        conS(st) == [sis EXCEPT !.streams = st, !.heat_utilities = nada]
        conU(hu) == [sis EXCEPT !.streams = base, !.heat_utilities = hu]
    IN  { conS(base) }
        \cup UNION { { conS([base EXCEPT ![i] = v]) :
                         v \in VariantesDeCorriente(base[i]) } : i \in 1..n }
        \cup { conU([nada EXCEPT ![j] = h]) :
                 j \in 1..m, h \in VariantesDeUtilidades }
        \cup { [sis EXCEPT
                  !.streams = [i \in 1..n |->
                                 IF ids[i] = sis.units[j].outs[1]
                                 THEN [base[i] EXCEPT !.H = 7200] ELSE base[i]],
                  !.heat_utilities = [nada EXCEPT ![j] = << 72 >>]] :
                 j \in 1..m }
        \cup { conS([i \in 1..n |->
                       IF i \in Z THEN [base[i] EXCEPT !.F_mass = 0, !.eth = 0]
                       ELSE base[i]]) : Z \in SUBSET (1..n) }
        \cup { conU([j \in 1..m |-> IF j \in U THEN << 37 >> ELSE << >>]) :
                 U \in SUBSET (1..m) }

\* The results the runs of the page are explored with: every stream flowing;
\* no vapour leaving the flash (no flow in VAPOR-CALIENTE and PRODUCTO-FINAL);
\* a trickle of product; the heater and the cooler with their utilities and
\* the exchanger with an enthalpy gain.
Resultados(sis, f_total) ==
    LET ids   == IDsDeCorrientes(sis.units, sis.path)
        n     == Len(ids)
        m     == Len(sis.units)
        base  == [i \in 1..n |-> CorrienteBase(ids[i], f_total)]
        nada  == [j \in 1..m |-> << >>]
    IN  { [sis EXCEPT !.streams = base, !.heat_utilities = nada],
          [sis EXCEPT
             !.streams = [i \in 1..n |->
                            IF ids[i] \in { "VAPOR-CALIENTE", "PRODUCTO-FINAL" }
                            THEN [base[i] EXCEPT !.F_mass = 0, !.eth = 0]
                            ELSE base[i]],
             !.heat_utilities = nada],
          [sis EXCEPT
             !.streams = [i \in 1..n |->
                            IF ids[i] = "PRODUCTO-FINAL"
                            THEN [base[i] EXCEPT !.F_mass = 3, !.eth = 1]
                            ELSE base[i]],
             !.heat_utilities = nada],
          [sis EXCEPT
             !.streams = [i \in 1..n |->
                            IF ids[i] = "3-MOSTO-PRE"
                            THEN [base[i] EXCEPT !.H = 7200] ELSE base[i]],
             !.heat_utilities = [j \in 1..m |->
                                   IF sis.units[j].ID = "E-101" THEN << 7200 >>
                                   ELSE IF sis.units[j].ID = "E-102"
                                        THEN << -3600, -90 >>
                                        ELSE << >>]] }

\* ------------------------------------------------ generar_reporte_streamlit

\* The stream of the system with this ID.
CorrienteDe(sis, id) ==
    sis.streams[CHOOSE i \in 1..Len(sis.streams) : sis.streams[i].ID = id]

\* a / b, kept exact as the pair (a, b); Python raises ZeroDivisionError
\* exactly when b is 0.
Cociente(a, b) == << a, b >>
LanzaZeroDivision(q) == q[2] = 0

\* format(q, ".N%"): q scaled by escala and rounded as format() rounds; -1
\* where the division raised.
Formato(q, escala) ==
    IF LanzaZeroDivision(q) THEN -1 ELSE RoundHalfEven(q[1] * escala, q[2])

\* The row filter with >= in place of >.
ConFlujoNoNegativo(s) == s.F_mass >= 0

\* Whether the loop appends a row for s: if s.F_mass > 0
ConFlujo(s) == s.F_mass > 0

\* One row of datos_mat: the columns as they are formatted (°C with 2
\* decimals in 1/100, bar with 2 decimals in 1/100, kg/h with 1 decimal in
\* 1/10, ethanol as a percentage with 1 decimal in 1/1000).
FilaMateria(s) ==
    [ID |-> s.ID,
     Temp |-> s.T - 27315,
     Presion |-> RoundHalfEven(s.P, 1000),
     Flujo |-> RoundHalfEven(s.F_mass, 10),
     Etanol |-> IF s.F_mass > 0
                THEN Formato(Cociente(s.eth, s.F_mass), 1000)
                ELSE 0]

datos_mat(sis) ==
    LET conFlujo == SelectSeq(sis.streams, ConFlujo)
    IN  [i \in 1..Len(conFlujo) |-> FilaMateria(conFlujo[i])]

\* calor_kw with the enthalpy difference of the exchanger taken inlet minus
\* outlet.
calor_kjh_Invertido(sis, j) ==
    LET u  == sis.units[j]
        hu == sis.heat_utilities[j]
    IN  IF hu # << >> THEN Suma(hu)
        ELSE IF u.clase = "HXprocess"
             THEN CorrienteDe(sis, u.ins[1]).H - CorrienteDe(sis, u.outs[1]).H
             ELSE 0

\* calor_kw of the unit at position j of sis.units, as its numerator in kJ/h
\* (the code divides it by 3600).
calor_kjh(sis, j) ==
    LET u  == sis.units[j]
        hu == sis.heat_utilities[j]
    IN  IF hu # << >> THEN Suma(hu)
        ELSE IF u.clase = "HXprocess"
             THEN CorrienteDe(sis, u.outs[1]).H - CorrienteDe(sis, u.ins[1]).H
             ELSE 0

\* if abs(calor_kw) > 0.01
SuperaUmbral(kjh) == Abs(kjh) * 100 > UMBRAL_CENTI_KW * KJH_POR_KW

\* {'Equipo': u.ID, 'Energía (kW)': round(calor_kw, 2)}, the duty in 1/100 kW
FilaEnergia(sis, j) ==
    [Equipo |-> sis.units[j].ID,
     Energia |-> RoundHalfEven(calor_kjh(sis, j) * 100, KJH_POR_KW)]

\* The positions, in sis.units, of the units of the system in path order.
UnidadesDelSistema(sis) == sis.path

datos_en(sis) ==
    LET us == UnidadesDelSistema(sis)
        conCalor == SelectSeq(us, LAMBDA j : SuperaUmbral(calor_kjh(sis, j)))
    IN  [i \in 1..Len(conCalor) |-> FilaEnergia(sis, conCalor[i])]

\* return pd.DataFrame(datos_mat), pd.DataFrame(datos_en)
generar_reporte_streamlit(sis) == << datos_mat(sis), datos_en(sis) >>

\* prod.imass['Ethanol'] / prod.F_mass if prod.F_mass > 0 else 0, as the
\* pair (numerator, denominator)
Pureza(prod) ==
    IF prod.F_mass > 0 THEN Cociente(prod.eth, prod.F_mass) ELSE Cociente(0, 1)

\* The three values the f-string puts in the prompt: {t_e101_out},
\* {p_flash_atm} and {pureza:.2%} (in 1/10000).
Prompt(t_e101, p_atm, q) == << t_e101, p_atm, Formato(q, 10000) >>

\* sistema.flowsheet.stream.get('PRODUCTO-FINAL'): the object registered
\* under the ID.  Every run registers its own streams before it gets here,
\* so the object is a stream of sis; an object of an earlier system would be
\* a stream this run's simulate() never touched.
Buscar(reg, sis, id) ==
    IF reg[id] = sis.gen THEN CorrienteDe(sis, id)
    ELSE Corriente(id, 0, 0, 0, Kelvin(25), 101325)

\* -------------------------------------------------------------------- state

VARIABLES
    secret,        \* st.secrets["GEMINI_API_KEY"]: "valid", "invalid", "missing"
    sliders,       \* the four slider values the session holds
    clicked,       \* whether this rerun was caused by a press of the button
    thermo,        \* bst.settings: the engine's global thermo setting
    registry,      \* the engine's global flowsheet: stream ID -> generation
    ticket,        \* the engine's global counter of automatic stream IDs
    pc,            \* where the script is
    model,         \* the name model: "undefined" or the model's name
    f_mass_total,  \* the script's names for what the widgets returned
    t_e100_out,
    t_e101_out,
    p_flash_atm,
    btn_simular,
    args,          \* the arguments ejecutar_simulacion was called with
    sistema,       \* eth_sys / sistema
    df,            \* << df_m, df_e >>, or << >>
    pureza,
    prompt,        \* the prompt's three values, or << >>
    aviso,         \* the page: st.warning shown
    tablas,        \* the page: the two st.dataframe, or << >>
    texto,         \* the page: st.info(response.text), or ""
    errores,       \* the page: how many st.error
    excepcion,     \* the exception that ended the script, or ""
    simCalls,      \* calls of eth_sys.simulate() in this run
    genCalls,      \* calls of model.generate_content() in this run
    activo,        \* the external services a call is in flight to
    log            \* the steps of this run, in the order they were taken

vars ==
    << secret, sliders, clicked, thermo, registry, ticket, pc, model,
       f_mass_total, t_e100_out, t_e101_out, p_flash_atm, btn_simular, args,
       sistema, df, pureza, prompt, aviso, tablas, texto, errores, excepcion,
       simCalls, genCalls, activo, log >>

entorno == << secret, thermo, registry, ticket >>
locales ==
    << model, f_mass_total, t_e100_out, t_e101_out, p_flash_atm, btn_simular,
       args, sistema, df, pureza, prompt >>
pagina == << aviso, tablas, texto, errores >>
llamadas == << simCalls, genCalls, activo >>

Secretos == { "valid", "invalid", "missing" }

\* The widgets of the sidebar: (min, max, default).
Widgets ==
    [f    |-> << FMin, FMax, FDefault >>,
     t100 |-> << T100Min, T100Max, T100Default >>,
     t101 |-> << T101Min, T101Max, T101Default >>,
     p    |-> << PMin, PMax, PDefault >>]

\* What a user may try to drag a slider to.
Pedidos(w) == { Widgets[w][1] - 1, Widgets[w][1], Widgets[w][2], Widgets[w][2] + 1 }

\* A slider that holds whatever it is dragged to.
SliderSinLimites(lo, hi, v) == TRUE

\* st.slider(label, min, max, value): the widget holds only values of its range.
SliderAdmite(lo, hi, v) == lo <= v /\ v <= hi

Init ==
    /\ secret \in Secretos
    /\ sliders = [w \in DOMAIN Widgets |-> Widgets[w][3]]
    /\ clicked = FALSE
    /\ thermo = << >>
    /\ registry = [id \in {} |-> 0]
    /\ ticket = 0
    /\ pc = "configure"
    /\ model = "undefined"
    /\ f_mass_total = 0 /\ t_e100_out = 0 /\ t_e101_out = 0 /\ p_flash_atm = 0
    /\ btn_simular = FALSE
    /\ args = << >>
    /\ sistema = SistemaVacio
    /\ df = << >>
    /\ pureza = << >>
    /\ prompt = << >>
    /\ aviso = FALSE /\ tablas = << >> /\ texto = "" /\ errores = 0
    /\ excepcion = ""
    /\ simCalls = 0 /\ genCalls = 0 /\ activo = {}
    /\ log = << >>

\* ------------------------------------------------------------ the user, reruns

\* A rerun: the page is cleared and the script starts again from its first
\* line with none of its names bound.  The user acts on the page once the
\* script has ended; a widget touched while the script runs is not modelled.
Rerun ==
    /\ pc' = "configure"
    /\ model' = "undefined"
    /\ f_mass_total' = 0 /\ t_e100_out' = 0 /\ t_e101_out' = 0
    /\ p_flash_atm' = 0
    /\ btn_simular' = FALSE
    /\ args' = << >>
    /\ sistema' = SistemaVacio
    /\ df' = << >> /\ pureza' = << >> /\ prompt' = << >>
    /\ aviso' = FALSE /\ tablas' = << >> /\ texto' = "" /\ errores' = 0
    /\ excepcion' = ""
    /\ simCalls' = 0 /\ genCalls' = 0 /\ activo' = {}
    /\ log' = << >>

\* The user drags slider w to v; a changed value reruns the script.
MoveSlider(w, v) ==
    /\ pc = "done"
    /\ SliderAdmite(Widgets[w][1], Widgets[w][2], v)
    /\ v # sliders[w]
    /\ sliders' = [sliders EXCEPT ![w] = v]
    /\ clicked' = FALSE
    /\ Rerun
    /\ UNCHANGED entorno

\* The user presses "Ejecutar Simulación e IA".
ClickButton ==
    /\ pc = "done"
    /\ ticket < 2 * MaxCorridas
    /\ ticket + 2 <= Len(AutoIDs)
    /\ clicked' = TRUE
    /\ Rerun
    /\ UNCHANGED << entorno, sliders >>

\* ------------------------------------------------------------------ the script

\* Lines 10-12: the key is read and the client is configured.  A key that is
\* there, good or bad, lets genai.configure return.
ConfigureOk ==
    /\ pc = "configure"
    /\ secret \in { "valid", "invalid" }
    /\ model' = "gemini-1.5-flash"
    /\ pc' = "sidebar"
    /\ UNCHANGED << entorno, sliders, clicked, f_mass_total, t_e100_out,
                    t_e101_out, p_flash_atm, btn_simular, args, sistema, df,
                    pureza, prompt, pagina, excepcion, llamadas, log >>

\* Lines 13-14: the try block raised (no key in the secrets, or a library
\* that rejects a bad key at once); the name model stays unbound.
ConfigureRaises ==
    /\ pc = "configure"
    /\ secret \in { "missing", "invalid" }
    /\ aviso' = TRUE
    /\ pc' = "sidebar"
    /\ UNCHANGED << entorno, sliders, clicked, model, f_mass_total, t_e100_out,
                    t_e101_out, p_flash_atm, btn_simular, args, sistema, df,
                    pureza, prompt, tablas, texto, errores, excepcion,
                    llamadas, log >>

\* Lines 19-31 and 103: the widgets return their values; without a press of
\* the button the script ends here.
Sidebar ==
    /\ pc = "sidebar"
    /\ f_mass_total' = sliders.f
    /\ t_e100_out' = sliders.t100
    /\ t_e101_out' = sliders.t101
    /\ p_flash_atm' = sliders.p
    /\ btn_simular' = clicked
    /\ log' = Append(log, "read_params")
    /\ pc' = IF clicked THEN "build" ELSE "done"
    /\ UNCHANGED << entorno, sliders, clicked, model, args, sistema, df,
                    pureza, prompt, pagina, excepcion, llamadas >>

\* Lines 105 and 36-66: ejecutar_simulacion is called and declares the
\* chemicals, the streams, the units and the system.
Build ==
    /\ pc = "build"
    /\ args' = << f_mass_total, t_e100_out, t_e101_out, p_flash_atm >>
    /\ thermo' = Chemicals
    /\ sistema' = SistemaDeclarado(ticket, f_mass_total, t_e100_out,
                                   t_e101_out, p_flash_atm)
    /\ registry' = Registrar(registry,
                             IDsRegistrados(sistema'.units, f_mass_total),
                             ticket)
    /\ ticket' = ticket + 2
    /\ log' = Append(log, "build")
    /\ pc' = "simulate"
    /\ UNCHANGED << secret, sliders, clicked, model, f_mass_total, t_e100_out,
                    t_e101_out, p_flash_atm, btn_simular, df, pureza, prompt,
                    pagina, excepcion, llamadas >>

\* Line 67: eth_sys.simulate() is entered.
SimulateCall ==
    /\ pc = "simulate"
    /\ simCalls' = simCalls + 1
    /\ activo' = activo \cup { "engine" }
    /\ log' = Append(log, "simulate")
    /\ pc' = "simulating"
    /\ UNCHANGED << entorno, sliders, clicked, locales, pagina, excepcion,
                    genCalls >>

\* Lines 67-69: simulate() returns, having written its results into the
\* streams and the units; the system is returned.
SimulateReturns ==
    /\ pc = "simulating"
    /\ sistema' \in Resultados(sistema, f_mass_total)
    /\ activo' = activo \ { "engine" }
    /\ pc' = "report"
    /\ UNCHANGED << entorno, sliders, clicked, model, f_mass_total, t_e100_out,
                    t_e101_out, p_flash_atm, btn_simular, args, df, pureza,
                    prompt, pagina, excepcion, simCalls, genCalls, log >>

\* simulate() raising and being called again.
SimulateRaisesReintenta ==
    /\ pc = "simulating"
    /\ activo' = activo \ { "engine" }
    /\ pc' = "simulate"
    /\ UNCHANGED << entorno, sliders, clicked, locales, pagina, excepcion,
                    simCalls, genCalls, log >>

\* Line 67: simulate() raises.  Nothing in the script catches it: the
\* exception leaves ejecutar_simulacion and the if block and ends the script.
SimulateRaises ==
    /\ pc = "simulating"
    /\ activo' = activo \ { "engine" }
    /\ excepcion' = "simulate"
    /\ pc' = "done"
    /\ UNCHANGED << entorno, sliders, clicked, locales, pagina, simCalls,
                    genCalls, log >>

\* The report going straight on to the prompt, the tables never shown.
ReportSinMostrar ==
    /\ pc = "report"
    /\ df' = generar_reporte_streamlit(sistema)
    /\ log' = Append(log, "report")
    /\ pc' = "prompt"
    /\ UNCHANGED << entorno, sliders, clicked, model, f_mass_total, t_e100_out,
                    t_e101_out, p_flash_atm, btn_simular, args, sistema,
                    pureza, prompt, pagina, excepcion, llamadas >>

\* Lines 106 and 74-100: the two tables are computed from the system.  No
\* division by zero gets past the guard of line 84; if one did, the
\* exception would end the script.
Report ==
    /\ pc = "report"
    /\ LET r == generar_reporte_streamlit(sistema)
       IN  IF \E i \in 1..Len(r[1]) : r[1][i].Etanol = -1
           THEN /\ excepcion' = "ZeroDivisionError"
                /\ pc' = "done"
                /\ df' = df
           ELSE /\ excepcion' = excepcion
                /\ pc' = "render_tables"
                /\ df' = r
    /\ log' = Append(log, "report")
    /\ UNCHANGED << entorno, sliders, clicked, model, f_mass_total, t_e100_out,
                    t_e101_out, p_flash_atm, btn_simular, args, sistema,
                    pureza, prompt, pagina, llamadas >>

\* Lines 77-98: reading an attribute of a stream or of a unit raises.  Nothing
\* catches it.
ReportRaises ==
    /\ pc = "report"
    /\ excepcion' = "report"
    /\ log' = Append(log, "report")
    /\ pc' = "done"
    /\ UNCHANGED << entorno, sliders, clicked, locales, pagina, llamadas >>

\* Lines 109-115: the two tables are put on the page.
RenderTables ==
    /\ pc = "render_tables"
    /\ tablas' = df
    /\ log' = Append(log, "render_tables")
    /\ pc' = "prompt"
    /\ UNCHANGED << entorno, sliders, clicked, locales, aviso, texto, errores,
                    excepcion, llamadas >>

\* Lines 122-131: the product stream is looked up in the flowsheet, its
\* purity is computed and the prompt is formatted.  A lookup that finds
\* nothing gives None, and prod.F_mass then raises AttributeError.
BuildPrompt ==
    /\ pc = "prompt"
    /\ log' = Append(log, "prompt")
    /\ IF "PRODUCTO-FINAL" \notin DOMAIN registry
       THEN /\ excepcion' = "AttributeError"
            /\ pc' = "done"
            /\ UNCHANGED << pureza, prompt >>
       ELSE LET q == Pureza(Buscar(registry, sistema, "PRODUCTO-FINAL"))
            IN  IF LanzaZeroDivision(q)
                THEN /\ excepcion' = "ZeroDivisionError"
                     /\ pc' = "done"
                     /\ UNCHANGED << pureza, prompt >>
                ELSE /\ pureza' = q
                     /\ prompt' = Prompt(t_e101_out, p_flash_atm, q)
                     /\ pc' = "generate"
                     /\ UNCHANGED excepcion
    /\ UNCHANGED << entorno, sliders, clicked, model, f_mass_total, t_e100_out,
                    t_e101_out, p_flash_atm, btn_simular, args, sistema, df,
                    pagina, llamadas >>

\* The NameError of an unbound model escaping the except clause.
GenerateSinModeloNoCapturado ==
    /\ pc = "generate"
    /\ model = "undefined"
    /\ excepcion' = "NameError"
    /\ log' = Append(log, "generate")
    /\ pc' = "done"
    /\ UNCHANGED << entorno, sliders, clicked, locales, pagina, llamadas >>

\* Line 134 with the name model unbound: NameError, caught by the bare
\* except of line 136, which shows the error message.
GenerateSinModelo ==
    /\ pc = "generate"
    /\ model = "undefined"
    /\ errores' = errores + 1
    /\ log' = Append(log, "generate")
    /\ pc' = "done"
    /\ UNCHANGED << entorno, sliders, clicked, locales, aviso, tablas, texto,
                    excepcion, llamadas >>

\* Line 134: model.generate_content(prompt) is entered.
GenerateCall ==
    /\ pc = "generate"
    /\ model # "undefined"
    /\ genCalls' = genCalls + 1
    /\ activo' = activo \cup { "genai" }
    /\ log' = Append(log, "generate")
    /\ pc' = "generating"
    /\ UNCHANGED << entorno, sliders, clicked, locales, pagina, excepcion,
                    simCalls >>

\* Lines 134-135: the service answers (it does so only to a valid key) and
\* the answer is put on the page.
GenerateReturns ==
    /\ pc = "generating"
    /\ secret = "valid"
    /\ activo' = activo \ { "genai" }
    /\ texto' = "response.text"
    /\ log' = Append(log, "render_text")
    /\ pc' = "done"
    /\ UNCHANGED << entorno, sliders, clicked, locales, aviso, tablas, errores,
                    excepcion, simCalls, genCalls >>

\* The except clause clearing the tables as it shows the error.
GenerateRaisesBorraTablas ==
    /\ pc = "generating"
    /\ activo' = activo \ { "genai" }
    /\ errores' = errores + 1
    /\ tablas' = << >>
    /\ pc' = "done"
    /\ UNCHANGED << entorno, sliders, clicked, locales, aviso, texto,
                    excepcion, simCalls, genCalls, log >>

\* Lines 134-137: the call, or reading response.text, raises; the bare
\* except shows the error message.
GenerateRaises ==
    /\ pc = "generating"
    /\ activo' = activo \ { "genai" }
    /\ errores' = errores + 1
    /\ pc' = "done"
    /\ UNCHANGED << entorno, sliders, clicked, locales, aviso, tablas, texto,
                    excepcion, simCalls, genCalls, log >>

Next ==
    \/ \E w \in DOMAIN Widgets : \E v \in Pedidos(w) : MoveSlider(w, v)
    \/ ClickButton
    \/ ConfigureOk
    \/ ConfigureRaises
    \/ Sidebar
    \/ Build
    \/ SimulateCall
    \/ SimulateReturns
    \/ SimulateRaises
    \/ Report
    \/ ReportRaises
    \/ RenderTables
    \/ BuildPrompt
    \/ GenerateSinModelo
    \/ GenerateCall
    \/ GenerateReturns
    \/ GenerateRaises

Spec == Init /\ [][Next]_vars

\* The report functions on their own: the first run of a session, with the
\* sliders untouched, at the return of simulate(), for every result of
\* ResultadosAmplios; from there the script and the user go on as in Spec.
InitReporte ==
    /\ secret \in Secretos
    /\ sliders = [w \in DOMAIN Widgets |-> Widgets[w][3]]
    /\ clicked = TRUE
    /\ thermo = Chemicals
    /\ ticket = 2
    /\ LET s0 == SistemaDeclarado(0, FDefault, T100Default, T101Default,
                                  PDefault)
       IN  /\ registry = Registrar([id \in {} |-> 0],
                                   IDsRegistrados(s0.units, FDefault), 0)
           /\ sistema \in ResultadosAmplios(s0, FDefault)
    /\ pc = "report"
    /\ model = IF secret = "missing" THEN "undefined" ELSE "gemini-1.5-flash"
    /\ f_mass_total = FDefault /\ t_e100_out = T100Default
    /\ t_e101_out = T101Default /\ p_flash_atm = PDefault
    /\ btn_simular = TRUE
    /\ args = << FDefault, T100Default, T101Default, PDefault >>
    /\ df = << >>
    /\ pureza = << >>
    /\ prompt = << >>
    /\ aviso = (secret = "missing")
    /\ tablas = << >> /\ texto = "" /\ errores = 0
    /\ excepcion = ""
    /\ simCalls = 1 /\ genCalls = 0 /\ activo = {}
    /\ log = << "read_params", "build", "simulate" >>

SpecReporte == InitReporte /\ [][Next]_vars

\* ------------------------------------------------------------------- claims

EsPrefijo(s, t) == Len(s) <= Len(t) /\ \A i \in 1..Len(s) : s[i] = t[i]

\* The steps in the order the specification gives them, and in the order of
\* the script's statements.
OrdenDelSpec ==
    << "read_params", "build", "simulate", "report", "prompt", "generate",
       "render_tables", "render_text" >>
OrdenDelCodigo ==
    << "read_params", "build", "simulate", "report", "render_tables",
       "prompt", "generate", "render_text" >>

\* C1: if the simulation or the report generation raises during a triggered
\* run, the user is shown a generic error message, the simulation is not
\* retried, and neither table nor explanation text is rendered.
C1_ErrorGenericoSinResultados ==
    (pc = "done" /\ excepcion \in { "simulate", "report" })
        => /\ errores >= 1
           /\ simCalls = 1
           /\ tablas = << >>
           /\ texto = ""

C3_Original == EsPrefijo(log, OrdenDelSpec)

\* C3 as amended: the steps of a triggered run are taken in the order read
\* parameters, build, simulate, derive the tables, render the tables, build
\* the prompt, call the text generation, render the text; each starts after
\* the one before has completed, and a run that renders the text has taken
\* them all.
C3_OrdenDePasos ==
    /\ EsPrefijo(log, OrdenDelCodigo)
    /\ Len(tablas) = 2 => (Len(log) >= 5 /\ df = tablas)
    /\ prompt # << >> => Len(log) >= 6
    /\ genCalls > 0 => (Len(log) >= 7 /\ prompt # << >>)
    /\ texto # "" => log = OrdenDelCodigo
    /\ "engine" \in activo => (Len(log) = 3 /\ pc = "simulating")
    /\ "genai" \in activo => (Len(log) = 7 /\ pc = "generating")
    /\ (btn_simular /\ pc = "done" /\ excepcion = "") => Len(log) >= 7

C3_Testigo ==
    pc = "done" /\ log = OrdenDelCodigo /\ texto # "" /\ Len(tablas) = 2

\* C4: a triggered run calls simulate() exactly once and the text generation
\* at most once, one after the other and never at the same time; a run
\* without a press of the button calls neither and renders no table.
C4_UnaLlamadaPorServicio ==
    /\ simCalls <= 1 /\ genCalls <= 1
    /\ Cardinality(activo) <= 1
    /\ (btn_simular /\ pc = "done") => simCalls = 1
    /\ genCalls = 1 => (simCalls = 1 /\ "engine" \notin activo)
    /\ "engine" \in activo => genCalls = 0
    /\ ~btn_simular => (simCalls = 0 /\ genCalls = 0 /\ activo = {}
                        /\ tablas = << >>)

C4_Testigo ==
    btn_simular /\ pc = "done" /\ simCalls = 1 /\ genCalls = 1
        /\ Len(tablas) = 2

\* C5: nothing is retained between runs: the tables and the prompt a run
\* renders are those its own four parameters (and the engine's results for
\* them) give in a process that has run nothing before; every stream ID in
\* the mass table is one the parameters alone determine, and the prompt is
\* built from this run's own product stream.
C5_SinEstadoEntreCorridas ==
    (pc = "done" /\ Len(tablas) = 2)
        => LET nuevo == SistemaDeclarado(0, args[1], args[2], args[3], args[4])
               ids   == Rango(IDsDeCorrientes(nuevo.units, nuevo.path))
           IN  /\ \A k \in 1..Len(tablas[1]) : tablas[1][k].ID \in ids
               /\ prompt # << >> =>
                    prompt = Prompt(args[3], args[4],
                               Pureza(CorrienteDe(sistema, "PRODUCTO-FINAL")))

\* C6: every call of ejecutar_simulacion, and so every call of the engine,
\* gets a feed flow in 500..2000 kg/h, an E-100 temperature in 70..90 °C, an
\* E-101 temperature in 85..98 °C and a flash pressure in 0.5..1.5 atm.
C6_ParametrosEnRango ==
    /\ args # << >>
          => /\ 500 <= args[1] /\ args[1] <= 2000
             /\ 70 <= args[2] /\ args[2] <= 90
             /\ 85 <= args[3] /\ args[3] <= 98
             /\ 50 <= args[4] /\ args[4] <= 150
    /\ (simCalls > 0 \/ sistema # SistemaVacio) => args # << >>

C6_Testigo ==
    "engine" \in activo /\ args = << 2000, 70, 98, 50 >>

\* The units every run declares.
C7_Equipos ==
    { "P-100", "E-100", "E-101", "V-100", "V-102", "E-102", "P-101" }

\* The topology of a built system but for the number of its units: two
\* species, the recycle closed through VINAZAS-RETORNO, the path holding
\* exactly the declared units, the wiring the same for every parameter set.
C7_Topologia(n) ==
    sistema # SistemaVacio
        => LET us  == sistema.units
               ref == Unidades(sistema.gen, T100Default, T101Default, PDefault)
           IN  /\ Rango(sistema.chemicals) = { "Water", "Ethanol" }
               /\ Len(sistema.chemicals) = 2
               /\ Len(us) = n
               /\ Cardinality({ us[j].ID : j \in 1..Len(us) }) = n
               /\ \E j, k \in 1..Len(us) :
                     /\ us[j].ID = "P-101" /\ us[j].clase = "Pump"
                     /\ us[j].outs = << "VINAZAS-RETORNO" >>
                     /\ us[k].ID = "E-100" /\ us[k].clase = "HXprocess"
                     /\ Len(us[k].ins) = 2
                     /\ us[k].ins[2] = "VINAZAS-RETORNO"
               /\ Len(sistema.path) = Len(us)
               /\ { us[sistema.path[i]].ID : i \in 1..Len(sistema.path) }
                     = { us[j].ID : j \in 1..Len(us) }
               /\ \A j \in 1..Len(us) :
                     /\ j <= Len(ref)
                     /\ us[j].ID = ref[j].ID /\ us[j].clase = ref[j].clase
                     /\ us[j].ins = ref[j].ins /\ us[j].outs = ref[j].outs

\* C7 as stated: every run declares the same topology of two species and six
\* unit operations, the recycle closed by VINAZAS-RETORNO being the outlet of
\* P-101 and the second inlet of E-100, and the path holds exactly the
\* declared units.
C7_Original == C7_Topologia(6)

\* C7 as amended: the same, with seven unit operations (P-100, E-100, E-101,
\* V-100, V-102, E-102, P-101).
C7_TopologiaFija ==
    /\ C7_Topologia(7)
    /\ sistema # SistemaVacio
          => { sistema.units[j].ID : j \in 1..Len(sistema.units) } = C7_Equipos

C7_Testigo ==
    pc = "simulate" /\ sistema # SistemaVacio /\ sistema.gen > 0
        /\ args = << 500, 90, 85, 150 >>

\* C8: if the text generation fails in a triggered run, one error message is
\* shown in place of the explanation, the call is not made again, and the
\* tables already on the page stay there unchanged.
C8_FalloDeTexto ==
    [][ errores' > errores
          => /\ errores' = 1
             /\ texto = "" /\ texto' = ""
             /\ Len(tablas) = 2 /\ tablas' = tablas
             /\ genCalls' = genCalls /\ genCalls <= 1
             /\ pc' = "done" /\ activo' = {}
             /\ excepcion' = "" ]_vars

C8_Testigo ==
    pc = "done" /\ errores = 1 /\ genCalls = 1 /\ secret = "valid"
        /\ Len(tablas) = 2 /\ texto = ""

\* C9: the mass table has exactly one row for each stream of the system
\* whose mass flow is greater than zero and no other row, and no ethanol
\* fraction is computed by dividing by a zero mass flow, in the rows or in
\* the purity of PRODUCTO-FINAL, which is 0 when that stream's flow is not
\* positive.
C9_TablaDeMateria ==
    /\ excepcion # "ZeroDivisionError"
    /\ df # << >>
          => LET m  == df[1]
                 st == sistema.streams
             IN  /\ \A i \in 1..Len(st) :
                       Cardinality({ k \in 1..Len(m) : m[k].ID = st[i].ID })
                           = IF st[i].F_mass > 0 THEN 1 ELSE 0
                 /\ \A k \in 1..Len(m) :
                       /\ \E i \in 1..Len(st) : st[i].ID = m[k].ID
                       /\ m[k].Etanol # -1
    /\ pureza # << >>
          => /\ pureza[2] # 0
             /\ CorrienteDe(sistema, "PRODUCTO-FINAL").F_mass <= 0
                   => pureza[1] = 0

C9_Testigo ==
    /\ pureza # << >> /\ df # << >>
    /\ CorrienteDe(sistema, "PRODUCTO-FINAL").F_mass = 0
    /\ Len(df[1]) = Len(sistema.streams) - 1

\* The duty of the unit at position j as C10 states it, in kJ/h.
C10_Calor(j) ==
    IF sistema.heat_utilities[j] # << >>
    THEN Suma(sistema.heat_utilities[j])
    ELSE IF sistema.units[j].clase = "HXprocess"
         THEN CorrienteDe(sistema, sistema.units[j].outs[1]).H
                - CorrienteDe(sistema, sistema.units[j].ins[1]).H
         ELSE 0

\* C10: the duty of a unit is the sum of its heat utilities' duties over 3600
\* when it has any, else (first outlet enthalpy - first inlet enthalpy) over
\* 3600 when it is a process heat exchanger, else 0; the energy table has a
\* row for a unit exactly when the duty exceeds 0.01 kW in absolute value
\* (36 kJ/h), with the duty rounded to 1/100 kW, so a pump or a valve without
\* heat utilities never has a row.
C10_TablaDeEnergia ==
    df # << >>
        => LET e == df[2]
           IN  \A j \in 1..Len(sistema.units) :
                  LET filas == { k \in 1..Len(e) :
                                   e[k].Equipo = sistema.units[j].ID }
                  IN  /\ Cardinality(filas)
                            = IF Abs(C10_Calor(j)) > 36 THEN 1 ELSE 0
                      /\ \A k \in filas :
                            e[k].Energia
                                = RoundHalfEven(C10_Calor(j) * 100, 3600)
                      /\ (sistema.heat_utilities[j] = << >>
                            /\ sistema.units[j].clase
                                 \in { "Pump", "IsenthalpicValve", "Flash",
                                       "HXutility" })
                            => filas = {}

C10_Testigo ==
    /\ df # << >>
    /\ sistema.heat_utilities[2] = << >>
    /\ \E k \in 1..Len(df[2]) :
          df[2][k].Equipo = "E-100" /\ df[2][k].Energia = 200

=============================================================================
